---- MODULE Spec2Model ----
(***************************************************************************)
(* A model of the OCR post-processing pipeline of kindle_to_pdf            *)
(* (src/src/kindle_to_pdf/ocr.py): orientation detection, line/column      *)
(* grouping, line text merging and paragraph merging.                      *)
(*                                                                         *)
(* Conventions.                                                            *)
(*  - An OcrResult is the tuple <<text, confidence, bbox>> and a bbox is   *)
(*    <<x, y, width, height>>, as in the source; Python's 0-based r[2][1]  *)
(*    is r[3][2] here.                                                     *)
(*  - Coordinates are integers in thousandths of the normalized unit, so   *)
(*    that 0.025 is 25 and 0.02 is 20.  Ratios are kept exact (numerator   *)
(*    and denominator) instead of being rounded to floats.                 *)
(*  - A text is a sequence of Unicode code points.                         *)
(***************************************************************************)
EXTENDS Integers, Sequences, FiniteSets, TLC

VARIABLES
    pc,               \* which operation has been applied to the inputs
    recognize_raises, \* TRUE when ocr_instance.recognize() raises
    results,          \* OcrResults returned by ocr_instance.recognize()
    lines,            \* list[list[OcrResult]] returned by a grouper
    verdict,          \* value returned by detect_text_orientation
    line,             \* the list[OcrResult] handed to _merge_line_text
    merged,           \* the string returned by _merge_line_text
    text_lines,       \* the list[str] handed to _merge_paragraph_lines
    result_parts,     \* the paragraphs _merge_paragraph_lines has flushed
    paragraph_text,   \* the string returned by _merge_paragraph_lines
    direction,        \* KindleToPDF.direction
    vertical_mode,    \* KindleToPDF.vertical_mode, which selects page_turn_key
    ocr_vertical_mode,\* KindleToPDF.config.ocr.vertical_mode, which selects the grouper
    max_pages,        \* KindleToPDF.config.max_pages
    detect_count,     \* how often detect_text_orientation has been called
    screens,          \* the images the reader shows at successive captures
    screenshot_dir,   \* the files of config.screenshot_dir
    total_pages,      \* the value returned by take_screenshots
    batch,            \* the list returned by recognize_text_batch
    recognized,       \* pages recognized when perform_ocr was interrupted
    ocr_results,      \* KindleToPDF.ocr_results, in insertion order
    markdown          \* the text create_markdown has written

appvars == <<direction, vertical_mode, ocr_vertical_mode, max_pages,
             detect_count, screens, screenshot_dir, total_pages, batch,
             recognized, ocr_results, markdown>>

vars == <<pc, recognize_raises, results, lines, verdict, line, merged,
          text_lines, result_parts, paragraph_text, direction, vertical_mode,
          ocr_vertical_mode, max_pages, detect_count, screens, screenshot_dir,
          total_pages, batch, recognized, ocr_results, markdown>>

(***************************************************************************)
(* Bounds of the model.                                                    *)
(***************************************************************************)
MaxFrags == 3        \* fragments on a page handed to a grouper
MaxProbe == 4        \* fragments on the page handed to the orientation detector
MaxLineFrags == 4    \* fragments in the line handed to the line text merger
MaxParaLines == 3    \* lines handed to the paragraph merger

\* x and y of the fragments of the probe page, in thousandths, and their
\* boxes <<width, height>>: height = 1.2 * width (not tall) and
\* height = 2 * width (tall).
ProbeXs == {100, 200, 300}
ProbeYs == {100, 200}
ProbeBoxes == {<<10, 12>>, <<10, 20>>}

\* x and y of the fragments handed to the groupers, in thousandths.  The
\* differences cover 20, 21, 25 and 26: at and just above both thresholds.
Coords == {0, 20, 25, 46}

(***************************************************************************)
(* Program constants (ocr.py, lines 19-33), in the units above.            *)
(***************************************************************************)
LINE_THRESHOLD_HORIZONTAL == 25
LINE_THRESHOLD_VERTICAL == 20
\* The constants of the orientation detector, in tenths: 0.5, 1.2, 0.6, 0.4.
VERTICAL_THRESHOLD == 5
ASPECT_RATIO_THRESHOLD == 12
X_TREND_WEIGHT == 6
ASPECT_RATIO_WEIGHT == 4
MIN_RESULTS_FOR_DETECTION == 3

(***************************************************************************)
(* Python built-ins.                                                       *)
(***************************************************************************)
abs(n) == IF n < 0 THEN -n ELSE n

\* sorted(seq, key=...), with key[i] the key of seq[i]: ascending in the
\* key, and stable: elements with equal keys keep their order in seq.
sorted(seq, key) ==
    LET n == Len(seq)
        rank(i) == Cardinality({j \in 1..n :
                       \/ key[j] < key[i]
                       \/ key[j] = key[i] /\ j < i})
    IN  [p \in 1..n |-> seq[CHOOSE i \in 1..n : rank(i) = p - 1]]

\* The keys of the four sorts of the groupers.
by_x(seq) == [i \in DOMAIN seq |-> seq[i][3][1]]
by_minus_x(seq) == [i \in DOMAIN seq |-> -seq[i][3][1]]
by_minus_y(seq) == [i \in DOMAIN seq |-> -seq[i][3][2]]

(***************************************************************************)
(* _group_by_line_horizontal                                               *)
(***************************************************************************)
\* The for loop of _group_by_line_horizontal over sorted_results[1:],
\* followed by the final lines.append(current_line).
RECURSIVE horizontal_loop(_, _, _, _)
horizontal_loop(rest, acc, current_line, current_y) ==
    IF rest = <<>>
    THEN Append(acc, current_line)
    ELSE LET result == Head(rest)
             y == result[3][2]
         IN  IF abs(y - current_y) <= LINE_THRESHOLD_HORIZONTAL
             THEN horizontal_loop(Tail(rest), acc,
                                  Append(current_line, result), current_y)
             ELSE horizontal_loop(Tail(rest), Append(acc, current_line),
                                  <<result>>, y)

\* A grouper that forgets the line it is still collecting when the
\* fragments run out.
RECURSIVE horizontal_loop_unflushed(_, _, _, _)
horizontal_loop_unflushed(rest, acc, current_line, current_y) ==
    IF rest = <<>>
    THEN acc
    ELSE LET result == Head(rest)
             y == result[3][2]
         IN  IF abs(y - current_y) <= LINE_THRESHOLD_HORIZONTAL
             THEN horizontal_loop_unflushed(Tail(rest), acc,
                                            Append(current_line, result),
                                            current_y)
             ELSE horizontal_loop_unflushed(Tail(rest),
                                            Append(acc, current_line),
                                            <<result>>, y)

group_by_line_horizontal_unflushed(rs) ==
    IF rs = <<>>
    THEN <<>>
    ELSE LET sorted_results == sorted(rs, by_minus_y(rs))
             grouped == horizontal_loop_unflushed(Tail(sorted_results), <<>>,
                            <<sorted_results[1]>>, sorted_results[1][3][2])
         IN  [k \in DOMAIN grouped |-> sorted(grouped[k], by_x(grouped[k]))]

\* A grouper whose reference y follows the last member of the line.
RECURSIVE horizontal_loop_drift(_, _, _, _)
horizontal_loop_drift(rest, acc, current_line, current_y) ==
    IF rest = <<>>
    THEN Append(acc, current_line)
    ELSE LET result == Head(rest)
             y == result[3][2]
         IN  IF abs(y - current_y) <= LINE_THRESHOLD_HORIZONTAL
             THEN horizontal_loop_drift(Tail(rest), acc,
                                        Append(current_line, result), y)
             ELSE horizontal_loop_drift(Tail(rest), Append(acc, current_line),
                                        <<result>>, y)

group_by_line_horizontal_drift(rs) ==
    IF rs = <<>>
    THEN <<>>
    ELSE LET sorted_results == sorted(rs, by_minus_y(rs))
             grouped == horizontal_loop_drift(Tail(sorted_results), <<>>,
                            <<sorted_results[1]>>, sorted_results[1][3][2])
         IN  [k \in DOMAIN grouped |-> sorted(grouped[k], by_x(grouped[k]))]

_group_by_line_horizontal(rs) ==
    IF rs = <<>>
    THEN <<>>
    ELSE LET sorted_results == sorted(rs, by_minus_y(rs))
             grouped == horizontal_loop(Tail(sorted_results), <<>>,
                            <<sorted_results[1]>>, sorted_results[1][3][2])
         IN  [k \in DOMAIN grouped |-> sorted(grouped[k], by_x(grouped[k]))]

(***************************************************************************)
(* _group_by_line_vertical                                                 *)
(***************************************************************************)
\* The for loop of _group_by_line_vertical over sorted_results[1:],
\* followed by the final columns.append(current_column).
RECURSIVE vertical_loop(_, _, _, _)
vertical_loop(rest, acc, current_column, current_x) ==
    IF rest = <<>>
    THEN Append(acc, current_column)
    ELSE LET result == Head(rest)
             x == result[3][1]
         IN  IF abs(x - current_x) <= LINE_THRESHOLD_VERTICAL
             THEN vertical_loop(Tail(rest), acc,
                                Append(current_column, result), current_x)
             ELSE vertical_loop(Tail(rest), Append(acc, current_column),
                                <<result>>, x)

\* A column grouper that scans left to right (ascending x).
group_by_line_vertical_ltr(rs) ==
    IF rs = <<>>
    THEN <<>>
    ELSE LET sorted_results == sorted(rs, by_x(rs))
             grouped == vertical_loop(Tail(sorted_results), <<>>,
                            <<sorted_results[1]>>, sorted_results[1][3][1])
         IN  [k \in DOMAIN grouped |-> sorted(grouped[k], by_minus_y(grouped[k]))]

_group_by_line_vertical(rs) ==
    IF rs = <<>>
    THEN <<>>
    ELSE LET sorted_results == sorted(rs, by_minus_x(rs))
             grouped == vertical_loop(Tail(sorted_results), <<>>,
                            <<sorted_results[1]>>, sorted_results[1][3][1])
         IN  [k \in DOMAIN grouped |-> sorted(grouped[k], by_minus_y(grouped[k]))]

(***************************************************************************)
(* _remove_japanese_spaces and _merge_line_text                            *)
(***************************************************************************)
\* [_JP_CHARS]: U+3040-309F, U+30A0-30FF, U+4E00-9FFF, U+3400-4DBF,
\* U+FF00-FFEF, U+3000-303F.
is_jp_char(c) ==
    \/ c \in 12352..12447
    \/ c \in 12448..12543
    \/ c \in 19968..40959
    \/ c \in 13312..19903
    \/ c \in 65280..65519
    \/ c \in 12288..12351

\* What \s matches in a str pattern, and what str.strip() strips: the
\* Unicode whitespace, U+3000 (ideographic space) included.
is_space(c) ==
    \/ c \in 9..13
    \/ c \in 28..32
    \/ c \in {133, 160, 5760, 8232, 8233, 8239, 8287, 12288}
    \/ c \in 8192..8202

\* Where the match of _JAPANESE_SPACING_PATTERN that starts at position i of
\* text ends, 0 when there is none there: (?<=[JP]) looks at text[i - 1],
\* \s+ is greedy and backs off until (?=[JP]) holds of the next character.
spacing_match_end(text, i) ==
    IF i > 1 /\ is_jp_char(text[i - 1])
    THEN LET ends == {j \in i..(Len(text) - 1) :
                         /\ \A m \in i..j : is_space(text[m])
                         /\ is_jp_char(text[j + 1])}
         IN  IF ends = {} THEN 0 ELSE CHOOSE j \in ends : \A m \in ends : m <= j
    ELSE 0

\* _JAPANESE_SPACING_PATTERN.sub("", text) from position i on: the matches
\* are found left to right, without overlap, against the original text.
RECURSIVE spacing_sub(_, _)
spacing_sub(text, i) ==
    IF i > Len(text)
    THEN <<>>
    ELSE LET j == spacing_match_end(text, i)
         IN  IF j = 0
             THEN <<text[i]>> \o spacing_sub(text, i + 1)
             ELSE spacing_sub(text, j + 1)

\* A cleaner whose pattern lacks the lookahead: (?<=[JP])\s+.
RECURSIVE spacing_sub_no_lookahead(_, _)
spacing_sub_no_lookahead(text, i) ==
    IF i > Len(text)
    THEN <<>>
    ELSE IF /\ is_space(text[i])
            /\ \E a \in 2..i : /\ \A q \in a..i : is_space(text[q])
                                /\ is_jp_char(text[a - 1])
    THEN spacing_sub_no_lookahead(text, i + 1)
    ELSE <<text[i]>> \o spacing_sub_no_lookahead(text, i + 1)

remove_spaces_after_jp(text) == spacing_sub_no_lookahead(text, 1)

\* A cleaner that deletes every whitespace character.
remove_all_spaces(text) == SelectSeq(text, LAMBDA c : ~is_space(c))

_remove_japanese_spaces(text) == spacing_sub(text, 1)

\* "".join(texts)
RECURSIVE join_empty(_)
join_empty(texts) ==
    IF texts = <<>> THEN <<>> ELSE Head(texts) \o join_empty(Tail(texts))

_merge_line_text(group) ==
    LET texts == [i \in DOMAIN group |-> group[i][1]]
        merged_text == join_empty(texts)
    IN  _remove_japanese_spaces(merged_text)

(***************************************************************************)
(* The line break rules: _BULLET_PATTERN, _NUMBERED_PATTERN,               *)
(* _CHAPTER_PATTERN, _should_break_before, _should_break_after,            *)
(* _should_keep_line_break.                                                *)
(***************************************************************************)
\* str.strip()
RECURSIVE lstrip(_)
lstrip(text) ==
    IF text # <<>> /\ is_space(Head(text)) THEN lstrip(Tail(text)) ELSE text

RECURSIVE rstrip(_)
rstrip(text) ==
    IF text # <<>> /\ is_space(text[Len(text)])
    THEN rstrip(SubSeq(text, 1, Len(text) - 1))
    ELSE text

strip(text) == rstrip(lstrip(text))

\* [0-9]
is_digit(c) == c \in 48..57

\* The lower-case form of an ASCII letter, as re.IGNORECASE compares them.
lower(c) == IF c \in 65..90 THEN c + 32 ELSE c

\* The characters of the class of _BULLET_PATTERN.
BulletChars ==
    {12539, 65381, 9679, 9632, 9654, 9655, 9670, 9671, 9675, 9678, 9733, 9734,
     45, 8208, 65293, 8213}

\* _BULLET_PATTERN.match(text): one or more bullet characters at the start.
bullet_match(text) == text # <<>> /\ text[1] \in BulletChars

\* _NUMBERED_PATTERN.match(text), alternative by alternative:
\* [0-9]+[\.\-][0-9]*, \([0-9]+\), a circled numeral, a small Roman numeral,
\* [a-z]\), [A-Z]\. at the start.
numbered_match(text) ==
    \/ \E k \in 1..(Len(text) - 1) :
          /\ \A m \in 1..k : is_digit(text[m])
          /\ text[k + 1] \in {46, 45}
    \/ /\ text # <<>> /\ text[1] = 40
       /\ \E k \in 2..(Len(text) - 1) :
             /\ \A m \in 2..k : is_digit(text[m])
             /\ text[k + 1] = 41
    \/ text # <<>> /\ text[1] \in 9312..9331
    \/ text # <<>> /\ text[1] \in 8560..8569
    \/ Len(text) >= 2 /\ text[1] \in 97..122 /\ text[2] = 41
    \/ Len(text) >= 2 /\ text[1] \in 65..90 /\ text[2] = 46

\* The classes and the fixed titles of _CHAPTER_PATTERN.
ChapterNumerals ==
    (48..57) \cup {19968, 20108, 19977, 22235, 20116, 20845, 19971, 20843,
                   20061, 21313, 30334, 21315}
ChapterUnits == {31456, 31680, 32232, 37096, 35441, 22238}
ChapterTitles ==
    {<<12399, 12376, 12417, 12395>>, <<12362, 12431, 12426, 12395>>,
     <<12414, 12392, 12417>>, <<24207, 31456>>, <<32066, 31456>>,
     <<30446, 27425>>, <<32034, 24341>>, <<21442, 32771, 25991, 29486>>,
     <<20184, 37682>>, <<12354, 12392, 12364, 12365>>, <<35613, 36766>>,
     <<33879, 32773, 32057, 20171>>}
ChapterKeywords ==
    {<<99, 104, 97, 112, 116, 101, 114>>, <<115, 101, 99, 116, 105, 111, 110>>}

\* keyword\s*[0-9]+ matching the whole of text, letters compared without case.
keyword_number_match(text, keyword) ==
    /\ Len(text) > Len(keyword)
    /\ \A i \in 1..Len(keyword) : lower(text[i]) = keyword[i]
    /\ \E k \in Len(keyword)..(Len(text) - 1) :
          /\ \A m \in (Len(keyword) + 1)..k : is_space(text[m])
          /\ \A m \in (k + 1)..Len(text) : is_digit(text[m])

\* _CHAPTER_PATTERN.match(text): the pattern is anchored at both ends.
chapter_match(text) ==
    \/ /\ Len(text) >= 3
       /\ text[1] = 31532
       /\ \A m \in 2..(Len(text) - 1) : text[m] \in ChapterNumerals
       /\ text[Len(text)] \in ChapterUnits
    \/ \E keyword \in ChapterKeywords : keyword_number_match(text, keyword)
    \/ text \in ChapterTitles

_should_break_before(text) ==
    LET stripped == strip(text)
    IN  IF stripped = <<>> THEN FALSE
        ELSE IF bullet_match(stripped) THEN TRUE
        ELSE IF numbered_match(stripped) THEN TRUE
        ELSE IF chapter_match(stripped) THEN TRUE
        ELSE FALSE

\* A rule that does not break after a blank line.
should_break_after_nonblank(text) ==
    LET stripped == strip(text)
    IN  IF stripped = <<>> THEN FALSE
        ELSE IF stripped[Len(stripped)] = 12290 THEN TRUE
        ELSE IF chapter_match(stripped) THEN TRUE
        ELSE FALSE

\* A rule that looks for the full stop without stripping the line.
should_break_after_unstripped(text) ==
    IF strip(text) = <<>> THEN TRUE
    ELSE IF text[Len(text)] = 12290 THEN TRUE
    ELSE IF chapter_match(strip(text)) THEN TRUE
    ELSE FALSE

_should_break_after(text) ==
    LET stripped == strip(text)
    IN  IF stripped = <<>> THEN TRUE
        ELSE IF stripped[Len(stripped)] = 12290 THEN TRUE
        ELSE IF chapter_match(stripped) THEN TRUE
        ELSE FALSE

\* next_line is <<>> for None and <<l>> for the line l.
\* A rule that joins whenever the current line does not ask for a break.
should_keep_line_break_after_only(current_line, next_line) ==
    IF next_line = <<>> THEN TRUE
    ELSE IF strip(next_line[1]) = <<>> THEN TRUE
    ELSE _should_break_after(current_line)

\* A rule that breaks after every line.
should_keep_line_break_always(current_line, next_line) == TRUE

_should_keep_line_break(current_line, next_line) ==
    IF next_line = <<>> THEN TRUE
    ELSE LET next_stripped == strip(next_line[1])
         IN  IF next_stripped = <<>> THEN TRUE
             ELSE IF _should_break_after(current_line) THEN TRUE
             ELSE IF _should_break_before(next_stripped) THEN TRUE
             ELSE FALSE

(***************************************************************************)
(* _merge_paragraph_lines                                                  *)
(***************************************************************************)
\* The for loop of _merge_paragraph_lines from line i on, followed by the
\* flush of what remains; the value is result_parts.
RECURSIVE paragraph_loop(_, _, _, _)
paragraph_loop(ls, i, parts, current_paragraph) ==
    IF i > Len(ls)
    THEN IF current_paragraph # <<>>
         THEN Append(parts, join_empty(current_paragraph))
         ELSE parts
    ELSE LET next_line == IF i + 1 <= Len(ls) THEN <<ls[i + 1]>> ELSE <<>>
             paragraph == Append(current_paragraph, ls[i])
         IN  IF _should_keep_line_break(ls[i], next_line)
             THEN paragraph_loop(ls, i + 1,
                                 Append(parts, join_empty(paragraph)), <<>>)
             ELSE paragraph_loop(ls, i + 1, parts, paragraph)

\* result_parts when _merge_paragraph_lines returns.
paragraph_parts(ls) == IF ls = <<>> THEN <<>> ELSE paragraph_loop(ls, 1, <<>>, <<>>)

\* The paragraphs joined in the usual Markdown way, a blank line between them.
RECURSIVE join_blank_line(_)
join_blank_line(parts) ==
    IF parts = <<>> THEN <<>>
    ELSE IF Len(parts) = 1 THEN parts[1]
    ELSE parts[1] \o <<10, 10>> \o join_blank_line(Tail(parts))

\* "\n".join(parts)
RECURSIVE join_newline(_)
join_newline(parts) ==
    IF parts = <<>> THEN <<>>
    ELSE IF Len(parts) = 1 THEN parts[1]
    ELSE parts[1] \o <<10>> \o join_newline(Tail(parts))

\* A merger that ends every paragraph, the last one too, with a newline.
merge_paragraph_lines_terminated(ls) ==
    IF ls = <<>> THEN <<>> ELSE join_newline(paragraph_parts(ls)) \o <<10>>

_merge_paragraph_lines(ls) ==
    IF ls = <<>> THEN <<>> ELSE join_newline(paragraph_parts(ls))

(***************************************************************************)
(* detect_text_orientation                                                 *)
(***************************************************************************)
\* The tuple (orientation, confidence), the confidence being num / den.
Verdict(orientation, num, den) ==
    [orientation |-> orientation, num |-> num, den |-> den]

NoVerdict == Verdict("none", 0, 1)

\* A detector that calls a score of exactly 0.5 vertical.
detect_text_orientation_ge(raises, rs) ==
    IF raises
    THEN Verdict("horizontal", 0, 1)
    ELSE IF Len(rs) < MIN_RESULTS_FOR_DETECTION
    THEN Verdict("horizontal", 0, 1)
    ELSE LET n == Len(rs)
             sorted_by_y == sorted(rs, by_minus_y(rs))
             x_coords == [i \in 1..n |-> sorted_by_y[i][3][1]]
             decreasing_count ==
                 Cardinality({i \in 1..(n - 1) : x_coords[i] > x_coords[i + 1]})
             vertical_boxes ==
                 Cardinality({i \in 1..n :
                     rs[i][3][4] * 10 > rs[i][3][3] * ASPECT_RATIO_THRESHOLD})
             den == 10 * n * (n - 1)
             combined_score ==
                 decreasing_count * n * X_TREND_WEIGHT
                     + vertical_boxes * (n - 1) * ASPECT_RATIO_WEIGHT
         IN  IF combined_score * 10 >= VERTICAL_THRESHOLD * den
             THEN Verdict("vertical", combined_score, den)
             ELSE Verdict("horizontal", den - combined_score, den)

\* A detector that reports full confidence when it has too little to go on.
detect_text_orientation_sure(raises, rs) ==
    IF raises \/ Len(rs) < MIN_RESULTS_FOR_DETECTION
    THEN Verdict("horizontal", 1, 1)
    ELSE detect_text_orientation_ge(raises, rs)

\* raises: _create_ocr_instance or recognize() raised; rs: what recognize()
\* returned otherwise.  With n = len(results),
\*   decreasing_ratio = decreasing_count / (n - 1),
\*   vertical_ratio   = vertical_boxes / n,
\* so combined_score below is the source's combined_score times
\* den = 10 * n * (n - 1), and the returned confidence is num / den.
detect_text_orientation(raises, rs) ==
    IF raises
    THEN Verdict("horizontal", 0, 1)
    ELSE IF Len(rs) < MIN_RESULTS_FOR_DETECTION
    THEN Verdict("horizontal", 0, 1)
    ELSE LET n == Len(rs)
             sorted_by_y == sorted(rs, by_minus_y(rs))
             x_coords == [i \in 1..n |-> sorted_by_y[i][3][1]]
             decreasing_count ==
                 Cardinality({i \in 1..(n - 1) : x_coords[i] > x_coords[i + 1]})
             vertical_boxes ==
                 Cardinality({i \in 1..n :
                     rs[i][3][4] * 10 > rs[i][3][3] * ASPECT_RATIO_THRESHOLD})
             den == 10 * n * (n - 1)
             combined_score ==
                 decreasing_count * n * X_TREND_WEIGHT
                     + vertical_boxes * (n - 1) * ASPECT_RATIO_WEIGHT
         IN  IF combined_score * 10 > VERTICAL_THRESHOLD * den
             THEN Verdict("vertical", combined_score, den)
             ELSE Verdict("horizontal", den - combined_score, den)

(***************************************************************************)
(* Grouping: recognize_text hands the page's fragments to the grouper that *)
(* config.vertical_mode selects (ocr.py, lines 393-397).                   *)
(***************************************************************************)
\* The application's variables while a single function of ocr.py is applied.
AppIdle ==
    /\ direction = "auto"
    /\ vertical_mode = FALSE
    /\ ocr_vertical_mode = FALSE
    /\ max_pages = 0
    /\ detect_count = 0
    /\ screens = <<>>
    /\ screenshot_dir = {}
    /\ total_pages = 0
    /\ batch = <<>>
    /\ recognized = 0
    /\ ocr_results = <<>>
    /\ markdown = <<>>

\* The i-th fragment of a page carries the one-letter text "a", "b", ... so
\* that fragments with equal boxes remain distinguishable.
Fragment(i, x, y, width, height) == <<<<96 + i>>, 100, <<x, y, width, height>>>>

InitGroup ==
    /\ pc = "page"
    /\ recognize_raises = FALSE
    /\ \E n \in 0..MaxFrags : \E pts \in [1..n -> Coords \X Coords] :
           results = [i \in 1..n |-> Fragment(i, pts[i][1], pts[i][2], 10, 10)]
    /\ lines = <<>>
    /\ verdict = NoVerdict
    /\ line = <<>>
    /\ merged = <<>>
    /\ text_lines = <<>>
    /\ result_parts = <<>>
    /\ paragraph_text = <<>>
    /\ AppIdle

GroupHorizontal ==
    /\ pc = "page"
    /\ lines' = _group_by_line_horizontal(results)
    /\ pc' = "horizontal"
    /\ UNCHANGED <<recognize_raises, results, verdict, line, merged,
                   text_lines, result_parts, paragraph_text>>
    /\ UNCHANGED appvars

GroupVertical ==
    /\ pc = "page"
    /\ lines' = _group_by_line_vertical(results)
    /\ pc' = "vertical"
    /\ UNCHANGED <<recognize_raises, results, verdict, line, merged,
                   text_lines, result_parts, paragraph_text>>
    /\ UNCHANGED appvars

NextGroup == GroupHorizontal \/ GroupVertical

SpecGroup == InitGroup /\ [][NextGroup]_vars

(***************************************************************************)
(* Properties of the groupers.                                             *)
(***************************************************************************)
XOf(r) == r[3][1]
YOf(r) == r[3][2]
Members(group) == {group[i] : i \in DOMAIN group}
MaxOf(S) == CHOOSE m \in S : \A n \in S : n <= m

\* The groups hold the fragments of the page, each one once, and none is empty.
IsPartition(groups, rs) ==
    /\ \A k \in DOMAIN groups : groups[k] # <<>>
    /\ \A i \in DOMAIN rs :
          Cardinality({p \in (DOMAIN groups) \X (DOMAIN rs) :
                          /\ p[2] \in DOMAIN groups[p[1]]
                          /\ groups[p[1]][p[2]] = rs[i]}) = 1
    /\ \A k \in DOMAIN groups : \A j \in DOMAIN groups[k] :
          \E i \in DOMAIN rs : rs[i] = groups[k][j]

\* The y of the first (topmost) member a line was started with.
TopY(group) == MaxOf({YOf(r) : r \in Members(group)})
\* The x of the first (rightmost) member a column was started with.
RightX(group) == MaxOf({XOf(r) : r \in Members(group)})

\* C1: the horizontal grouper returns the lines obtained by scanning the
\* fragments in descending y, a new line starting exactly when a fragment's
\* y is more than 0.025 away from the y of the first member of the current
\* line (the reference never moves); every member of a line is within 0.025
\* of its first member, the first members of consecutive lines are more than
\* 0.025 apart, and each line is ordered by ascending x.
C1_HorizontalGrouping ==
    pc = "horizontal" =>
        /\ IsPartition(lines, results)
        /\ \A k \in DOMAIN lines : \A r \in Members(lines[k]) :
              TopY(lines[k]) - YOf(r) <= 25
        /\ \A k \in DOMAIN lines : k + 1 \in DOMAIN lines =>
              /\ TopY(lines[k]) - TopY(lines[k + 1]) > 25
              /\ \A r \in Members(lines[k + 1]) : TopY(lines[k]) - YOf(r) > 25
        /\ \A k \in DOMAIN lines : \A i, j \in DOMAIN lines[k] :
              i < j => XOf(lines[k][i]) <= XOf(lines[k][j])

\* A line of two members followed by a line whose first member is within
\* 0.025 of the line's last member, though not of its first.
C1_Witness ==
    /\ pc = "horizontal"
    /\ \E k \in DOMAIN lines :
          /\ k + 1 \in DOMAIN lines
          /\ Len(lines[k]) >= 2
          /\ \E r \in Members(lines[k]) :
                /\ YOf(r) < TopY(lines[k])
                /\ YOf(r) - TopY(lines[k + 1]) <= 25

\* C2: the vertical grouper returns columns ordered right to left: the
\* fragments are scanned in descending x, a new column starting exactly when
\* a fragment's x is more than 0.02 away from the x of the first (rightmost)
\* member of the current column, and each column is ordered by descending y.
C2_VerticalGrouping ==
    pc = "vertical" =>
        /\ IsPartition(lines, results)
        /\ \A k \in DOMAIN lines : \A r \in Members(lines[k]) :
              RightX(lines[k]) - XOf(r) <= 20
        /\ \A k \in DOMAIN lines : k + 1 \in DOMAIN lines =>
              /\ RightX(lines[k]) - RightX(lines[k + 1]) > 20
              /\ \A r \in Members(lines[k + 1]) : RightX(lines[k]) - XOf(r) > 20
        /\ \A k \in DOMAIN lines : \A i, j \in DOMAIN lines[k] :
              i < j => YOf(lines[k][i]) >= YOf(lines[k][j])

\* Two columns, the right one holding two fragments at different heights.
C2_Witness ==
    /\ pc = "vertical"
    /\ \E k \in DOMAIN lines :
          /\ k + 1 \in DOMAIN lines
          /\ Len(lines[k]) >= 2
          /\ YOf(lines[k][1]) > YOf(lines[k][2])
          /\ XOf(lines[k][1]) < XOf(lines[k][2])

(***************************************************************************)
(* Orientation detection on the probe page.                                *)
(***************************************************************************)
InitOrient ==
    /\ pc = "probe"
    /\ \/ recognize_raises = TRUE /\ results = <<>>
       \/ /\ recognize_raises = FALSE
          /\ \E n \in 0..MaxProbe :
             \E pts \in [1..n -> ProbeXs \X ProbeYs \X ProbeBoxes] :
                results = [i \in 1..n |->
                    Fragment(i, pts[i][1], pts[i][2], pts[i][3][1], pts[i][3][2])]
    /\ lines = <<>>
    /\ verdict = NoVerdict
    /\ line = <<>>
    /\ merged = <<>>
    /\ text_lines = <<>>
    /\ result_parts = <<>>
    /\ paragraph_text = <<>>
    /\ AppIdle

DetectTextOrientation ==
    /\ pc = "probe"
    /\ verdict' = detect_text_orientation(recognize_raises, results)
    /\ pc' = "detected"
    /\ UNCHANGED <<recognize_raises, results, lines, line, merged,
                   text_lines, result_parts, paragraph_text>>
    /\ UNCHANGED appvars

NextOrient == DetectTextOrientation

SpecOrient == InitOrient /\ [][NextOrient]_vars

(***************************************************************************)
(* Properties of the orientation detector.                                 *)
(***************************************************************************)
\* Fragment i is read before fragment j: higher on the page, or at the same
\* height and earlier in the recognition output.
ReadBefore(rs, i, j) ==
    \/ YOf(rs[i]) > YOf(rs[j])
    \/ YOf(rs[i]) = YOf(rs[j]) /\ i < j

\* The adjacent pairs, top to bottom, whose x strictly decreases.
DecreasingPairs(rs) ==
    {p \in (DOMAIN rs) \X (DOMAIN rs) :
        /\ ReadBefore(rs, p[1], p[2])
        /\ ~\E k \in DOMAIN rs : ReadBefore(rs, p[1], k) /\ ReadBefore(rs, k, p[2])
        /\ XOf(rs[p[1]]) > XOf(rs[p[2]])}

\* The fragments with height > 1.2 * width.
TallBoxes(rs) == {i \in DOMAIN rs : 10 * rs[i][3][4] > 12 * rs[i][3][3]}

\* 10 * n * (n - 1) times the score 0.6 * d + 0.4 * v.
ScoreNum(rs) ==
    6 * Cardinality(DecreasingPairs(rs)) * Len(rs)
        + 4 * Cardinality(TallBoxes(rs)) * (Len(rs) - 1)
ScoreDen(rs) == 10 * Len(rs) * (Len(rs) - 1)

AllTwiceAsTall(rs) == \A i \in DOMAIN rs : rs[i][3][4] = 2 * rs[i][3][3]
\* x strictly decreases in top-to-bottom order (fragments at the same
\* height taken in recognition order, as the detector's stable sort does).
XStrictlyDecreasingDownwards(rs) ==
    \A i, j \in DOMAIN rs : ReadBefore(rs, i, j) => XOf(rs[i]) > XOf(rs[j])

\* C3: with n >= 3 fragments the detector returns (vertical, score) if and
\* only if score = 0.6 * d + 0.4 * v exceeds 0.5, and (horizontal, 1 - score)
\* otherwise; a score of exactly 0.5 is horizontal, and a page of boxes twice
\* as tall as wide whose x strictly decreases downwards is vertical with
\* confidence above 0.5.
C3_OrientationScore ==
    (pc = "detected" /\ ~recognize_raises /\ Len(results) >= 3) =>
        LET num == ScoreNum(results)
            den == ScoreDen(results)
        IN  /\ verdict.orientation = "vertical" <=> 2 * num > den
            /\ verdict.orientation \in {"vertical", "horizontal"}
            /\ verdict.orientation = "vertical" =>
                  verdict.num * den = num * verdict.den
            /\ verdict.orientation = "horizontal" =>
                  verdict.num * den = (den - num) * verdict.den
            /\ 2 * num = den =>
                  verdict.orientation = "horizontal" /\ 2 * verdict.num = verdict.den
            /\ AllTwiceAsTall(results) /\ XStrictlyDecreasingDownwards(results) =>
                  verdict.orientation = "vertical" /\ 2 * verdict.num > verdict.den

\* A page whose score is exactly 0.5.
C3_Witness ==
    /\ pc = "detected"
    /\ ~recognize_raises
    /\ Len(results) >= 3
    /\ 2 * ScoreNum(results) = ScoreDen(results)
    /\ verdict.orientation = "horizontal"

\* A page of tall boxes whose x strictly decreases downwards.
C3_WitnessMonotone ==
    /\ pc = "detected"
    /\ ~recognize_raises
    /\ Len(results) >= 3
    /\ AllTwiceAsTall(results)
    /\ XStrictlyDecreasingDownwards(results)
    /\ verdict.orientation = "vertical"

\* C4: when recognition raises or returns fewer than 3 fragments, the
\* detector returns exactly (horizontal, 0.0).
C4_HorizontalDefault ==
    (pc = "detected" /\ (recognize_raises \/ Len(results) < 3)) =>
        verdict = Verdict("horizontal", 0, 1)

\* The detector has answered for a page of two tall fragments.
C4_Witness ==
    /\ pc = "detected"
    /\ ~recognize_raises
    /\ Len(results) = 2
    /\ TallBoxes(results) = {1, 2}
    /\ verdict.orientation = "horizontal"

\* The detector has answered though recognition raised.
C4_WitnessRaises ==
    /\ pc = "detected"
    /\ recognize_raises
    /\ verdict.orientation = "horizontal"

(***************************************************************************)
(* Line text merging: recognize_text merges each group (ocr.py, line 400). *)
(***************************************************************************)
\* The texts of the fragments of a line: empty, one character (hiragana wa,
\* space, ideographic space, Latin H) or hiragana ta followed by a space.
FragmentTexts == {<<>>, <<12431>>, <<32>>, <<12288>>, <<72>>, <<12383, 32>>}

\* The fragment with the given text (its box plays no part in merging).
TextFragment(text) == <<text, 100, <<0, 0, 10, 10>>>>
LineOf(texts) == [i \in DOMAIN texts |-> TextFragment(texts[i])]

\* The lines of the specification's examples:
\* ["wa", " ", "ta", " ", "shi"] in hiragana, ["Hello", " ", "World"], and
\* ["kore wa", " ", "OCR", " ", "tesuto", " ", "desu"] in kana.
ExampleWatashi == LineOf(<< <<12431>>, <<32>>, <<12383>>, <<32>>, <<12375>> >>)
ExampleHello ==
    LineOf(<< <<72, 101, 108, 108, 111>>, <<32>>, <<87, 111, 114, 108, 100>> >>)
ExampleMixed ==
    LineOf(<< <<12371, 12428, 12399>>, <<32>>, <<79, 67, 82>>, <<32>>,
              <<12486, 12473, 12488>>, <<32>>, <<12391, 12377>> >>)

InitLine ==
    /\ pc = "line"
    /\ recognize_raises = FALSE
    /\ results = <<>>
    /\ lines = <<>>
    /\ verdict = NoVerdict
    /\ \/ \E n \in 0..MaxLineFrags : \E texts \in [1..n -> FragmentTexts] :
             line = LineOf(texts)
       \/ line \in {ExampleWatashi, ExampleHello, ExampleMixed}
    /\ merged = <<>>
    /\ text_lines = <<>>
    /\ result_parts = <<>>
    /\ paragraph_text = <<>>
    /\ AppIdle

MergeLineText ==
    /\ pc = "line"
    /\ merged' = _merge_line_text(line)
    /\ pc' = "merged"
    /\ UNCHANGED <<recognize_raises, results, lines, verdict, line,
                   text_lines, result_parts, paragraph_text>>
    /\ UNCHANGED appvars

NextLine == MergeLineText

SpecLine == InitLine /\ [][NextLine]_vars

(***************************************************************************)
(* Properties of the line text merger.                                     *)
(***************************************************************************)
\* The fragment texts one after the other, with no separator.
RECURSIVE TextsInOrder(_)
TextsInOrder(group) ==
    IF group = <<>>
    THEN <<>>
    ELSE TextsInOrder(SubSeq(group, 1, Len(group) - 1)) \o group[Len(group)][1]

\* The characters of t at the positions not in gone, in order.
RECURSIVE Without(_, _, _)
Without(t, gone, k) ==
    IF k > Len(t)
    THEN <<>>
    ELSE (IF k \in gone THEN <<>> ELSE <<t[k]>>) \o Without(t, gone, k + 1)

\* The maximal whitespace run of t around position k.
RunAround(t, k) ==
    {m \in DOMAIN t :
        \A q \in (IF m < k THEN m..k ELSE k..m) : is_space(t[q])}

\* Position k of t lies in a maximal whitespace run that has an East-Asian
\* character immediately before it and immediately after it.
InRunBetweenEastAsian(t, k) ==
    /\ is_space(t[k])
    /\ LET run == RunAround(t, k)
           first == CHOOSE m \in run : \A q \in run : m <= q
           last == CHOOSE m \in run : \A q \in run : q <= m
       IN  /\ first > 1 /\ is_jp_char(t[first - 1])
           /\ last < Len(t) /\ is_jp_char(t[last + 1])

\* Position k of t lies in a stretch of whitespace that has an East-Asian
\* character immediately before it and immediately after it; the stretch
\* need not be a maximal run, since U+3000 is both whitespace and East-Asian.
InStretchBetweenEastAsian(t, k) ==
    /\ is_space(t[k])
    /\ \E a \in 2..k :
          /\ \A q \in a..k : is_space(t[q])
          /\ is_jp_char(t[a - 1])
    /\ \E b \in k..(Len(t) - 1) :
          /\ \A q \in k..b : is_space(t[q])
          /\ is_jp_char(t[b + 1])

\* C5 as stated: the merged text is the concatenation of the fragment texts
\* from which every maximal whitespace run between two East-Asian characters
\* is deleted, every other character being preserved.
C5_AsStated ==
    pc = "merged" =>
        LET t == TextsInOrder(line)
        IN  merged = Without(t, {k \in DOMAIN t : InRunBetweenEastAsian(t, k)}, 1)

\* C5, amended: the merged text is the concatenation of the fragment texts
\* from which exactly the whitespace characters are deleted that lie in a
\* stretch of whitespace immediately preceded and immediately followed by an
\* East-Asian character, U+3000 counting as whitespace and as East-Asian;
\* without U+3000 in the text these are the maximal whitespace runs between
\* two East-Asian characters.  The two examples and the empty group come out
\* as stated.
C5_LineMerge ==
    pc = "merged" =>
        LET t == TextsInOrder(line)
        IN  /\ merged =
                  Without(t, {k \in DOMAIN t : InStretchBetweenEastAsian(t, k)}, 1)
            /\ (\A k \in DOMAIN t : t[k] # 12288) =>
                  merged =
                    Without(t, {k \in DOMAIN t : InRunBetweenEastAsian(t, k)}, 1)
            /\ line = ExampleWatashi => merged = <<12431, 12383, 12375>>
            /\ line = ExampleHello =>
                  merged = <<72, 101, 108, 108, 111, 32, 87, 111, 114, 108, 100>>
            /\ line = <<>> => merged = <<>>

\* A whitespace run between two kana has been deleted while a space next to
\* a Latin letter has been kept.
C5_Witness ==
    /\ pc = "merged"
    /\ Len(merged) < Len(TextsInOrder(line))
    /\ \E k \in DOMAIN merged : merged[k] = 32
    /\ \E k \in DOMAIN merged : merged[k] = 72

\* C6 as stated: the mixed example merges to "kore wa" "OCR" "tesuto" "desu"
\* with no space left.
C6_AsStated ==
    (pc = "merged" /\ line = ExampleMixed) =>
        merged = <<12371, 12428, 12399, 79, 67, 82,
                   12486, 12473, 12488, 12391, 12377>>

\* C6, amended: the mixed example keeps the spaces on both sides of the
\* Latin run "OCR" and loses only the space between the two kana words.
C6_MixedExample ==
    (pc = "merged" /\ line = ExampleMixed) =>
        merged = <<12371, 12428, 12399, 32, 79, 67, 82, 32,
                   12486, 12473, 12488, 12391, 12377>>

\* The mixed example has been merged.
C6_Witness ==
    /\ pc = "merged"
    /\ line = ExampleMixed
    /\ Len(merged) = 13

(***************************************************************************)
(* Paragraph merging: recognize_text merges the page's lines (ocr.py, line *)
(* 403).                                                                   *)
(***************************************************************************)
\* The lines handed to the paragraph merger, one of each kind the rules
\* tell apart (kana and kanji written by their readings):
ParaLines ==
    {<<>>,                                        \* ""
     <<32>>,                                      \* " "
     <<12371, 12428, 12399>>,                     \* "kore wa", plain
     <<12486, 12473, 12488, 12391, 12377, 12290>>,\* "tesuto desu。"
     <<12354, 12290, 32>>,                        \* "a。 "
     <<12539, 38917, 30446, 49>>,                 \* "・koumoku1", a bullet
     <<32, 12539, 12354>>,                        \* " ・a", an indented bullet
     <<49, 46, 12354>>,                           \* "1.a", numbered
     <<49, 50>>,                                  \* "12", digits alone
     <<9312, 12354>>,                             \* circled 1 and "a"
     <<31532, 49, 31456>>,                        \* "dai 1 shou", a title
     <<31532, 49, 31456, 12391, 12377>>,          \* "dai 1 shou desu", prose
     <<67, 72, 65, 80, 116, 101, 114, 32, 49>>}   \* "CHAPter 1", a title

\* The line lists of the specification's examples:
\* ["kore wa tesuto desu。", "tsugi no bun desu。"],
\* ["kore wa", "tesuto desu。"] and
\* ["honbun no setsumei", "・koumoku1", "・koumoku2"].
ExampleFullStop ==
    << <<12371, 12428, 12399, 12486, 12473, 12488, 12391, 12377, 12290>>,
       <<27425, 12398, 25991, 12391, 12377, 12290>> >>
ExampleRejoin ==
    << <<12371, 12428, 12399>>, <<12486, 12473, 12488, 12391, 12377, 12290>> >>
ExampleList ==
    << <<26412, 25991, 12398, 35500, 26126>>, <<12539, 38917, 30446, 49>>,
       <<12539, 38917, 30446, 50>> >>

InitPara ==
    /\ pc = "lines"
    /\ recognize_raises = FALSE
    /\ results = <<>>
    /\ lines = <<>>
    /\ verdict = NoVerdict
    /\ line = <<>>
    /\ merged = <<>>
    /\ \/ \E n \in 0..MaxParaLines : text_lines \in [1..n -> ParaLines]
       \/ text_lines \in {ExampleFullStop, ExampleRejoin, ExampleList}
    /\ result_parts = <<>>
    /\ paragraph_text = <<>>
    /\ AppIdle

MergeParagraphLines ==
    /\ pc = "lines"
    /\ result_parts' = paragraph_parts(text_lines)
    /\ paragraph_text' = _merge_paragraph_lines(text_lines)
    /\ pc' = "paragraphs"
    /\ UNCHANGED <<recognize_raises, results, lines, verdict, line, merged,
                   text_lines>>
    /\ UNCHANGED appvars

NextPara == MergeParagraphLines

SpecPara == InitPara /\ [][NextPara]_vars

(***************************************************************************)
(* Properties of the paragraph merger.                                     *)
(***************************************************************************)
\* The lines a..b of ls one after the other, with no separator.
RECURSIVE ConcatRange(_, _, _)
ConcatRange(ls, a, b) ==
    IF a > b THEN <<>> ELSE ConcatRange(ls, a, b - 1) \o ls[b]

\* The paragraphs obtained by cutting ls after the lines in flushes.
ParagraphsCutAt(ls, flushes) ==
    LET nth(k) == CHOOSE f \in flushes : Cardinality({g \in flushes : g < f}) = k - 1
    IN  [k \in 1..Cardinality(flushes) |->
            ConcatRange(ls, IF k = 1 THEN 1 ELSE nth(k - 1) + 1, nth(k))]

IsBlank(l) == \A k \in DOMAIN l : is_space(l[k])

\* l without its leading and trailing whitespace.
Trimmed(l) ==
    IF IsBlank(l)
    THEN <<>>
    ELSE LET solid == {k \in DOMAIN l : ~is_space(l[k])}
             first == CHOOSE k \in solid : \A m \in solid : k <= m
             last == CHOOSE k \in solid : \A m \in solid : m <= k
         IN  SubSeq(l, first, last)

\* l ends with the full stop U+3002, whitespace around it ignored.
EndsWithFullStop(l) == ~IsBlank(l) /\ Trimmed(l)[Len(Trimmed(l))] = 12290

\* l is a chapter/section title.
IsTitle(l) == chapter_match(Trimmed(l))

\* l starts with a bullet or a numbered marker, or is a title.
StartsItem(l) ==
    \/ bullet_match(Trimmed(l))
    \/ numbered_match(Trimmed(l))
    \/ IsTitle(l)

\* The five conditions of the specification for a flush after line i.
FlushListed(ls, i) ==
    \/ i = Len(ls)
    \/ i < Len(ls) /\ IsBlank(ls[i + 1])
    \/ EndsWithFullStop(ls[i])
    \/ IsTitle(ls[i])
    \/ i < Len(ls) /\ StartsItem(ls[i + 1])

\* A paragraph of the output ends with line i of the input.
BoundaryAfter(ls, parts, i) ==
    \E k \in 0..Len(parts) : ConcatRange(parts, 1, k) = ConcatRange(ls, 1, i)

\* Lines i and i + 1 of the input lie in one paragraph of the output, the
\* second directly after the first.
JoinedWithNext(ls, parts, i) ==
    \E k \in DOMAIN parts : \E a \in 1..i : \E b \in (i + 1)..Len(ls) :
        /\ parts[k] = ConcatRange(ls, a, b)
        /\ ConcatRange(parts, 1, k - 1) = ConcatRange(ls, 1, a - 1)

\* C7 as stated: the paragraphs are cut after exactly the lines for which
\* one of the five listed conditions holds, all other lines being joined to
\* their successor with no separator.
C7_AsStated ==
    pc = "paragraphs" =>
        result_parts =
            ParagraphsCutAt(text_lines,
                {i \in DOMAIN text_lines : FlushListed(text_lines, i)})

\* C7, amended: the paragraphs are cut after exactly the lines for which one
\* of the five listed conditions holds or which are themselves empty or
\* whitespace-only; every other line is joined to its successor with no
\* separator.
C7_FlushConditions ==
    pc = "paragraphs" =>
        result_parts =
            ParagraphsCutAt(text_lines,
                {i \in DOMAIN text_lines :
                    FlushListed(text_lines, i) \/ IsBlank(text_lines[i])})

\* A blank line followed by plain prose has been flushed on its own.
C7_Witness ==
    /\ pc = "paragraphs"
    /\ \E i \in DOMAIN text_lines :
          /\ IsBlank(text_lines[i])
          /\ ~FlushListed(text_lines, i)
          /\ BoundaryAfter(text_lines, result_parts, i)
    /\ \E i \in DOMAIN text_lines :
          /\ ~IsBlank(text_lines[i])
          /\ ~FlushListed(text_lines, i)
          /\ JoinedWithNext(text_lines, result_parts, i)

\* C8: a paragraph boundary follows every line that ends with the full
\* stop, whitespace around it ignored, whatever the next line is; the
\* example gives two paragraphs.
C8_BreakAfterFullStop ==
    pc = "paragraphs" =>
        /\ \A i \in DOMAIN text_lines :
              EndsWithFullStop(text_lines[i]) =>
                  BoundaryAfter(text_lines, result_parts, i)
        /\ text_lines = ExampleFullStop => result_parts = ExampleFullStop

\* The example has been merged into two paragraphs.
C8_Witness ==
    /\ pc = "paragraphs"
    /\ text_lines = ExampleFullStop
    /\ Len(result_parts) = 2

\* A full stop followed by a space, then plain prose, and a boundary between.
C8_WitnessTrailingSpace ==
    /\ pc = "paragraphs"
    /\ Len(text_lines) = 2
    /\ EndsWithFullStop(text_lines[1])
    /\ text_lines[1][Len(text_lines[1])] = 32
    /\ ~IsBlank(text_lines[2]) /\ ~StartsItem(text_lines[2])
    /\ Len(result_parts) = 2

\* C9: a non-blank line that neither ends with the full stop nor is a title,
\* followed by a non-blank line that starts no bullet, numbered marker or
\* title, is joined with it in one paragraph with no separator; the example
\* gives the single paragraph "kore wa tesuto desu。".
C9_MidSentenceRejoin ==
    pc = "paragraphs" =>
        /\ \A i \in DOMAIN text_lines :
              (/\ i < Len(text_lines)
               /\ ~IsBlank(text_lines[i])
               /\ ~EndsWithFullStop(text_lines[i])
               /\ ~IsTitle(text_lines[i])
               /\ ~IsBlank(text_lines[i + 1])
               /\ ~StartsItem(text_lines[i + 1])) =>
                  JoinedWithNext(text_lines, result_parts, i)
        /\ text_lines = ExampleRejoin =>
              /\ result_parts =
                    << <<12371, 12428, 12399, 12486, 12473, 12488, 12391, 12377,
                         12290>> >>
              /\ paragraph_text =
                    <<12371, 12428, 12399, 12486, 12473, 12488, 12391, 12377, 12290>>

\* The example has been merged into one paragraph.
C9_Witness ==
    /\ pc = "paragraphs"
    /\ text_lines = ExampleRejoin
    /\ Len(result_parts) = 1

\* C10: every line that starts with a bullet or a numbered marker, or that
\* is a title, begins a new paragraph: the buffer is flushed before it; the
\* example gives its three lines as three paragraphs.
C10_BreakBeforeItem ==
    pc = "paragraphs" =>
        /\ \A j \in DOMAIN text_lines :
              StartsItem(text_lines[j]) =>
                  BoundaryAfter(text_lines, result_parts, j - 1)
        /\ text_lines = ExampleList => result_parts = ExampleList

\* The example has been merged into three paragraphs.
C10_Witness ==
    /\ pc = "paragraphs"
    /\ text_lines = ExampleList
    /\ Len(result_parts) = 3

\* The text has no blank line: it neither starts nor ends with a newline and
\* holds no two newlines in a row.
NoBlankLine(t) ==
    /\ t # <<>> => (t[1] # 10 /\ t[Len(t)] # 10)
    /\ \A k \in DOMAIN t : (k < Len(t) /\ t[k] = 10) => t[k + 1] # 10

NewlineCount(t) == Cardinality({k \in DOMAIN t : t[k] = 10})

\* C11 as the specification states it: whatever the lines, the output has no
\* two newlines in a row and neither starts nor ends with a newline.
C11_AsStated ==
    pc = "paragraphs" => NoBlankLine(paragraph_text)

\* C11: the paragraphs are joined by exactly one newline each, and an empty
\* line is kept as an empty paragraph: the output is free of doubled, leading
\* and trailing newlines exactly when no line of two or more is empty.
C11_SingleNewlines ==
    pc = "paragraphs" =>
        /\ result_parts # <<>> =>
              NewlineCount(paragraph_text) = Len(result_parts) - 1
        /\ NoBlankLine(paragraph_text) <=>
              ~(/\ Len(text_lines) >= 2
                /\ \E i \in DOMAIN text_lines : text_lines[i] = <<>>)

\* Three non-empty lines, one of them of spaces only, have been merged into
\* three paragraphs.
C11_Witness ==
    /\ pc = "paragraphs"
    /\ Len(result_parts) = 3
    /\ \A i \in DOMAIN text_lines : text_lines[i] # <<>>
    /\ \E i \in DOMAIN text_lines : text_lines[i] = <<32>>

(***************************************************************************)
(* main.py: KindleToPDF                                                    *)
(***************************************************************************)

MaxDirPages == 2    \* most files of a directory of earlier screenshots
MaxScreens == 4     \* most different screens the reader shows
MaxMaxPages == 3    \* largest config.max_pages

DIRECTION_AUTO == "auto"
DIRECTION_VERTICAL == "vertical"
DIRECTION_HORIZONTAL == "horizontal"
VALID_DIRECTIONS == {DIRECTION_AUTO, DIRECTION_VERTICAL, DIRECTION_HORIZONTAL}

\* AppConfig.max_pages when none is given.
default_max_pages == 1000

\* str(n) of a natural number: its decimal digits.
RECURSIVE str(_)
str(n) == IF n < 10 THEN <<48 + n>> ELSE str(n \div 10) \o <<48 + (n % 10)>>

\* int(s) of a string of decimal digits.
RECURSIVE int(_)
int(s) ==
    IF Len(s) = 1 THEN s[1] - 48
    ELSE 10 * int(SubSeq(s, 1, Len(s) - 1)) + (s[Len(s)] - 48)

\* s.split(sep) for a separator of one character.
RECURSIVE split_loop(_, _, _, _)
split_loop(s, sep, k, piece) ==
    IF k > Len(s) THEN <<piece>>
    ELSE IF s[k] = sep THEN <<piece>> \o split_loop(s, sep, k + 1, <<>>)
    ELSE split_loop(s, sep, k + 1, Append(piece, s[k]))

split(s, sep) == split_loop(s, sep, 1, <<>>)

\* The stem of f"page_{page}.png".
page_stem(page) == <<112, 97, 103, 101, 95>> \o str(page)

\* A file of the screenshot directory: its stem and the image it holds.
File(page, image) == [stem |-> page_stem(page), image |-> image]

\* int(path.stem.split("_")[1])
get_page_number(path) == int(split(path.stem, 95)[2])

\* An image: its MD5 hash, whether recognition of it raises, and the
\* fragments recognition returns otherwise.
Image(hash, raises, rs) == [hash |-> hash, raises |-> raises, results |-> rs]

Glyphs(text, x, y, width, height) == <<text, 100, <<x, y, width, height>>>>

ImageUnreadable == Image(1, TRUE, <<>>)
ImageBlank == Image(2, FALSE, <<>>)
\* "kore wa" and "tesuto" side by side on one line.
ImageOpen ==
    Image(3, FALSE, << Glyphs(<<12371, 12428, 12399>>, 0, 46, 20, 10),
                       Glyphs(<<12486, 12473, 12488>>, 20, 46, 20, 10) >>)
\* "desu。"
ImageClose == Image(4, FALSE, << Glyphs(<<12391, 12377, 12290>>, 0, 46, 20, 10) >>)
\* "a", "i", "u。" in tall boxes from the upper right to the lower left.
ImageColumns ==
    Image(5, FALSE, << Glyphs(<<12354>>, 46, 46, 10, 20),
                       Glyphs(<<12356>>, 20, 25, 10, 20),
                       Glyphs(<<12358, 12290>>, 0, 0, 10, 20) >>)

PageImages == {ImageUnreadable, ImageBlank, ImageOpen, ImageClose, ImageColumns}
ScreenImages == {ImageUnreadable, ImageOpen, ImageColumns}

\* recognize_text for an image whose recognition does not raise.
recognize_text(image, vertical) ==
    IF image.results = <<>> THEN <<>>
    ELSE LET groups == IF vertical
                       THEN _group_by_line_vertical(image.results)
                       ELSE _group_by_line_horizontal(image.results)
         IN  _merge_paragraph_lines(
                 [i \in DOMAIN groups |-> _merge_line_text(groups[i])])

\* recognize_text_batch that gives up at the first image that fails.
RECURSIVE recognize_text_batch_stopping(_, _)
recognize_text_batch_stopping(image_paths, vertical) ==
    IF image_paths = <<>> \/ image_paths[1].image.raises THEN <<>>
    ELSE <<recognize_text(image_paths[1].image, vertical)>>
             \o recognize_text_batch_stopping(Tail(image_paths), vertical)

recognize_text_batch(image_paths, vertical) ==
    [i \in DOMAIN image_paths |->
        IF image_paths[i].image.raises THEN <<>>
        ELSE recognize_text(image_paths[i].image, vertical)]

\* The files in ascending page number, whatever order they are listed in.
_get_sorted_image_files(listing) ==
    sorted(listing, [i \in DOMAIN listing |-> get_page_number(listing[i])])

\* d[key] = value for a dict, kept as its items in insertion order.
dict_set(d, key, value) ==
    IF \E i \in DOMAIN d : d[i][1] = key
    THEN [i \in DOMAIN d |-> IF d[i][1] = key THEN <<key, value>> ELSE d[i]]
    ELSE Append(d, <<key, value>>)

dict_get(d, key) == d[CHOOSE i \in DOMAIN d : d[i][1] = key][2]

dict_keys(d) == [i \in DOMAIN d |-> d[i][1]]

\* The loop of perform_ocr over zip(page_numbers, results): entries i.. .
RECURSIVE store_results(_, _, _, _)
store_results(d, sorted_files, rs, i) ==
    IF i > Len(sorted_files) \/ i > Len(rs) THEN d
    ELSE store_results(dict_set(d, get_page_number(sorted_files[i]), rs[i]),
                       sorted_files, rs, i + 1)

\* perform_ocr that stores nothing for a page whose recognition failed.
perform_ocr_skipping(d, listing, vertical) ==
    LET readable == SelectSeq(_get_sorted_image_files(listing),
                              LAMBDA f : ~f.image.raises)
    IN  store_results(d, readable, recognize_text_batch(readable, vertical), 1)

\* self.ocr_results when perform_ocr returns.
perform_ocr(d, listing, vertical) ==
    LET sorted_files == _get_sorted_image_files(listing)
    IN  IF Len(sorted_files) = 0 THEN d
        ELSE store_results(d, sorted_files,
                           recognize_text_batch(sorted_files, vertical), 1)

\* all_lines of create_markdown for the pages from the i-th on.
RECURSIVE all_lines_from(_, _, _)
all_lines_from(d, sorted_pages, i) ==
    IF i > Len(sorted_pages) THEN <<>>
    ELSE LET text == strip(dict_get(d, sorted_pages[i]))
         IN  (IF text # <<>> THEN split(text, 10) ELSE <<>>)
                 \o all_lines_from(d, sorted_pages, i + 1)

\* The spelling order of the page numbers below 100: "10" before "2".
lexical_key(n) == IF n < 10 THEN 10 * n ELSE n

\* create_markdown with the pages in the order of their spelling.
create_markdown_lexical(d) ==
    LET keys == dict_keys(d)
        sorted_pages == sorted(keys, [i \in DOMAIN keys |-> lexical_key(keys[i])])
    IN  _merge_paragraph_lines(all_lines_from(d, sorted_pages, 1))

\* The pages' texts, each merged on its own, one per line.
RECURSIVE merged_page_by_page(_, _, _)
merged_page_by_page(d, sorted_pages, i) ==
    IF i > Len(sorted_pages) THEN <<>>
    ELSE LET text == strip(dict_get(d, sorted_pages[i]))
             rest == merged_page_by_page(d, sorted_pages, i + 1)
         IN  IF text = <<>> THEN rest
             ELSE <<_merge_paragraph_lines(split(text, 10))>> \o rest

\* create_markdown that merges the lines of each page separately.
create_markdown_page_by_page(d) ==
    LET keys == dict_keys(d)
    IN  join_newline(merged_page_by_page(d, sorted(keys, keys), 1))

\* merged_text of create_markdown.
create_markdown(d) ==
    LET keys == dict_keys(d)
        sorted_pages == sorted(keys, keys)
    IN  _merge_paragraph_lines(all_lines_from(d, sorted_pages, 1))

\* The image on the screen when the page-th screenshot is taken: the reader
\* stays on its last screen.
screen_at(page) == screens[IF page < Len(screens) THEN page ELSE Len(screens)]

\* The directory after a screenshot has been saved as page_<page>.png.
save_screenshot(dir, page, image) ==
    {f \in dir : f.stem # page_stem(page)} \union {File(page, image)}

\* The while loop of _capture_remaining_pages: the directory it leaves and
\* the value returned.
RECURSIVE capture_loop(_, _, _, _)
capture_loop(dir, page, last_hash, limit) ==
    LET image == screen_at(page)
        saved == save_screenshot(dir, page, image)
    IN  IF image.hash = last_hash
        THEN [dir |-> saved \ {File(page, image)}, total |-> page - 1]
        ELSE IF page >= limit
        THEN [dir |-> saved, total |-> page - 1]
        ELSE capture_loop(saved, page + 1, image.hash, limit)

\* _capture_remaining_pages after _capture_first_page.
_capture_remaining_pages(limit) ==
    capture_loop({File(1, screen_at(1))}, 2, screen_at(1).hash, limit)

\* The orientation _detect_text_direction finds on the image.
_detect_text_direction(image) ==
    detect_text_orientation(image.raises, image.results).orientation

\* The orientation _apply_direction_setting applies when the user gives the
\* answer to prompt_vertical_mode.
_apply_direction_setting(detected, answer) ==
    IF detected = "vertical" THEN answer ELSE FALSE

\* A KindleToPDF after __init__, before any screenshot.
InitApp ==
    /\ direction \in VALID_DIRECTIONS
    /\ vertical_mode = (direction = DIRECTION_VERTICAL)
    /\ ocr_vertical_mode \in BOOLEAN
    /\ detect_count = 0
    /\ total_pages = 0
    /\ batch = <<>>
    /\ recognized = 0
    /\ ocr_results = <<>>
    /\ markdown = <<>>
    /\ recognize_raises = FALSE
    /\ results = <<>>
    /\ lines = <<>>
    /\ verdict = NoVerdict
    /\ line = <<>>
    /\ merged = <<>>
    /\ text_lines = <<>>
    /\ result_parts = <<>>
    /\ paragraph_text = <<>>

\* Five pages of which the third cannot be recognized.
ExampleThirdFails ==
    {File(1, ImageOpen), File(2, ImageClose), File(3, ImageUnreadable),
     File(4, ImageOpen), File(5, ImageClose)}

\* A page without text between a page that stops in mid-sentence and the
\* page that ends the sentence.
ExampleGap == {File(1, ImageOpen), File(2, ImageBlank), File(3, ImageClose)}

\* run_from_screenshots on a directory of earlier screenshots: pages 1..n,
\* or pages 2 and 10, or the pages of an example.
InitDoc ==
    /\ pc = "from_screenshots"
    /\ InitApp
    /\ max_pages = default_max_pages
    /\ screens = <<>>
    /\ \/ \E n \in 1..MaxDirPages : \E images \in [1..n -> PageImages] :
             screenshot_dir = {File(i, images[i]) : i \in 1..n}
       \/ \E images \in [{2, 10} -> PageImages] :
             screenshot_dir = {File(i, images[i]) : i \in {2, 10}}
       \/ screenshot_dir \in {ExampleThirdFails, ExampleGap}

\* run on a reader that shows the given screens, the last one for ever.
InitRun ==
    /\ pc = "run"
    /\ InitApp
    /\ max_pages \in 1..MaxMaxPages
    /\ \E n \in 1..MaxScreens : \E images \in [1..n -> ScreenImages] :
          screens = images
    /\ screenshot_dir = {}

pipeline_vars == <<recognize_raises, results, lines, verdict, line, merged,
                   text_lines, result_parts, paragraph_text>>

\* The listings of the directory: its files in any order.
Listings(dir) ==
    {l \in [1..Cardinality(dir) -> dir] :
        \A i, j \in DOMAIN l : i # j => l[i] # l[j]}

\* take_screenshots: the first page, the detection in auto mode, the
\* remaining pages.
TakeScreenshots ==
    /\ pc = "run"
    /\ \E answer \in BOOLEAN :
          LET detected == _detect_text_direction(screen_at(1))
              applied == _apply_direction_setting(detected, answer)
              captured == _capture_remaining_pages(max_pages)
          IN  /\ IF direction = DIRECTION_AUTO
                 THEN /\ vertical_mode' = applied
                      /\ ocr_vertical_mode' = applied
                      /\ detect_count' = detect_count + 1
                 ELSE UNCHANGED <<vertical_mode, ocr_vertical_mode, detect_count>>
              /\ screenshot_dir' = captured.dir
              /\ total_pages' = captured.total
    /\ pc' = "ocr"
    /\ UNCHANGED <<direction, max_pages, screens, batch, recognized,
                   ocr_results, markdown>>
    /\ UNCHANGED pipeline_vars

\* detect_direction_from_screenshots
DetectDirectionFromScreenshots ==
    /\ pc = "from_screenshots"
    /\ \E answer \in BOOLEAN : \E listing \in Listings(screenshot_dir) :
          LET sorted_files == _get_sorted_image_files(listing)
              detected == _detect_text_direction(sorted_files[1].image)
              applied == _apply_direction_setting(detected, answer)
          IN  IF direction = DIRECTION_AUTO /\ Len(sorted_files) > 0
              THEN /\ vertical_mode' = applied
                   /\ ocr_vertical_mode' = applied
                   /\ detect_count' = detect_count + 1
              ELSE UNCHANGED <<vertical_mode, ocr_vertical_mode, detect_count>>
    /\ pc' = "ocr"
    /\ UNCHANGED <<direction, max_pages, screens, screenshot_dir, total_pages,
                   batch, recognized, ocr_results, markdown>>
    /\ UNCHANGED pipeline_vars

\* perform_ocr when nothing interrupts it.
PerformOcr ==
    /\ pc = "ocr"
    /\ \E listing \in Listings(screenshot_dir) :
          /\ batch' = recognize_text_batch(_get_sorted_image_files(listing),
                                           ocr_vertical_mode)
          /\ ocr_results' = perform_ocr(ocr_results, listing, ocr_vertical_mode)
    /\ pc' = "markdown"
    /\ UNCHANGED <<direction, vertical_mode, ocr_vertical_mode, max_pages,
                   detect_count, screens, screenshot_dir, total_pages,
                   recognized, markdown>>
    /\ UNCHANGED pipeline_vars

\* perform_ocr when a KeyboardInterrupt arrives after k pages have been
\* recognized: it leaves recognize_text_batch and perform_ocr, and main exits.
PerformOcrInterrupted ==
    /\ pc = "ocr"
    /\ \E k \in 0..(Cardinality(screenshot_dir) - 1) : recognized' = k
    /\ pc' = "interrupted"
    /\ UNCHANGED <<direction, vertical_mode, ocr_vertical_mode, max_pages,
                   detect_count, screens, screenshot_dir, total_pages, batch,
                   ocr_results, markdown>>
    /\ UNCHANGED pipeline_vars

\* create_markdown
CreateMarkdown ==
    /\ pc = "markdown"
    /\ markdown' = create_markdown(ocr_results)
    /\ pc' = "pdf"
    /\ UNCHANGED <<direction, vertical_mode, ocr_vertical_mode, max_pages,
                   detect_count, screens, screenshot_dir, total_pages, batch,
                   recognized, ocr_results>>
    /\ UNCHANGED pipeline_vars

NextDoc ==
    \/ DetectDirectionFromScreenshots
    \/ PerformOcr
    \/ PerformOcrInterrupted
    \/ CreateMarkdown

SpecDoc == InitDoc /\ [][NextDoc]_vars

NextRun ==
    \/ TakeScreenshots
    \/ PerformOcr
    \/ PerformOcrInterrupted
    \/ CreateMarkdown

SpecRun == InitRun /\ [][NextRun]_vars

(***************************************************************************)
(* Properties of the application                                           *)
(***************************************************************************)

\* The pages that have an entry in the mapping, and the text of a page.
Pages(d) == {d[i][1] : i \in DOMAIN d}
TextOf(d, page) == (CHOOSE e \in {d[i] : i \in DOMAIN d} : e[1] = page)[2]

WithoutNewlines(t) == SelectSeq(t, LAMBDA c : c # 10)

\* What the pages of the set contribute to the document, the page with the
\* smallest number first: their trimmed texts with the line ends taken out.
RECURSIVE ContributionsAscending(_, _)
ContributionsAscending(d, pages) ==
    IF pages = {} THEN <<>>
    ELSE LET first == CHOOSE p \in pages : \A q \in pages : p <= q
         IN  WithoutNewlines(Trimmed(TextOf(d, first)))
                 \o ContributionsAscending(d, pages \ {first})

\* C12: whatever order the files are listed in, the document holds the
\* contributions of the pages in ascending numeric page order, page 10
\* after page 2.
C12_AscendingPageOrder ==
    pc = "pdf" =>
        WithoutNewlines(markdown)
            = ContributionsAscending(ocr_results, Pages(ocr_results))

\* A document of the pages 2 and 10 with different texts has been written.
C12_Witness ==
    /\ pc = "pdf"
    /\ Pages(ocr_results) = {2, 10}
    /\ TextOf(ocr_results, 2) # <<>>
    /\ TextOf(ocr_results, 10) # <<>>
    /\ TextOf(ocr_results, 2) # TextOf(ocr_results, 10)

\* The lines of a text: what lies between its newlines.
LinesOf(t) ==
    LET breaks == {k \in DOMAIN t : t[k] = 10}
        n == Cardinality(breaks)
        nth(j) == IF j = 0 THEN 0
                  ELSE IF j = n + 1 THEN Len(t) + 1
                  ELSE CHOOSE k \in breaks :
                           Cardinality({m \in breaks : m < k}) = j - 1
    IN  [i \in 1..(n + 1) |-> SubSeq(t, nth(i - 1) + 1, nth(i) - 1)]

ParagraphsOf(t) == IF t = <<>> THEN <<>> ELSE LinesOf(t)

\* The pages whose text is not empty once trimmed.
NonEmptyPages(d) == {p \in Pages(d) : Trimmed(TextOf(d, p)) # <<>>}

\* The lines of the pages of the set, the page with the smallest number
\* first.
RECURSIVE DocumentLines(_, _)
DocumentLines(d, pages) ==
    IF pages = {} THEN <<>>
    ELSE LET first == CHOOSE p \in pages : \A q \in pages : p <= q
         IN  LinesOf(Trimmed(TextOf(d, first)))
                 \o DocumentLines(d, pages \ {first})

\* C13: the lines of all non-empty pages are merged as one sequence in page
\* order: when the last line of a page neither ends with the full stop nor
\* is a title and the first line of the next non-empty page starts no item,
\* both lines lie in one paragraph of the document with nothing between them.
C13_CrossPageRejoin ==
    pc = "pdf" =>
        LET d == ocr_results
            ls == DocumentLines(d, NonEmptyPages(d))
            parts == ParagraphsOf(markdown)
        IN  /\ ConcatRange(parts, 1, Len(parts)) = ConcatRange(ls, 1, Len(ls))
            /\ \A p, q \in NonEmptyPages(d) :
                  (/\ p < q
                   /\ ~\E r \in NonEmptyPages(d) : p < r /\ r < q) =>
                      LET i == Len(DocumentLines(d,
                                       {r \in NonEmptyPages(d) : r <= p}))
                      IN  (/\ ~EndsWithFullStop(ls[i])
                           /\ ~IsTitle(ls[i])
                           /\ ~StartsItem(ls[i + 1])) =>
                              JoinedWithNext(ls, parts, i)

\* "kore wa tesuto" of page 1 and "desu。" of page 3, the next page with
\* text, have been written as one paragraph.
C13_Witness ==
    /\ pc = "pdf"
    /\ Pages(ocr_results) = {1, 2, 3}
    /\ TextOf(ocr_results, 1) = <<12371, 12428, 12399, 12486, 12473, 12488>>
    /\ TextOf(ocr_results, 2) = <<>>
    /\ TextOf(ocr_results, 3) = <<12391, 12377, 12290>>
    /\ markdown = <<12371, 12428, 12399, 12486, 12473, 12488, 12391, 12377, 12290>>

\* The file with the i-th smallest page number.
FileOfRank(dir, i) ==
    CHOOSE f \in dir :
        Cardinality({g \in dir : get_page_number(g) < get_page_number(f)}) = i - 1

\* C14: the batch returns one entry per image, the empty string where
\* recognition raised and the recognized text elsewhere, and perform_ocr
\* stores an entry for every screenshot; when page 3 of 5 fails the other
\* four keep their text and the document lacks page 3 only.
C14_FailureIsolation ==
    pc \in {"markdown", "pdf"} =>
        /\ Len(batch) = Cardinality(screenshot_dir)
        /\ \A i \in DOMAIN batch :
              LET f == FileOfRank(screenshot_dir, i)
              IN  /\ batch[i] = IF f.image.raises THEN <<>>
                                ELSE recognize_text(f.image, ocr_vertical_mode)
                  /\ get_page_number(f) \in Pages(ocr_results)
                  /\ TextOf(ocr_results, get_page_number(f)) = batch[i]
        /\ Pages(ocr_results) = {get_page_number(f) : f \in screenshot_dir}
        /\ (screenshot_dir = ExampleThirdFails /\ ~ocr_vertical_mode) =>
              /\ ocr_results =
                    << <<1, <<12371, 12428, 12399, 12486, 12473, 12488>>>>,
                       <<2, <<12391, 12377, 12290>>>>,
                       <<3, <<>>>>,
                       <<4, <<12371, 12428, 12399, 12486, 12473, 12488>>>>,
                       <<5, <<12391, 12377, 12290>>>> >>
              /\ pc = "pdf" =>
                    markdown =
                        <<12371, 12428, 12399, 12486, 12473, 12488, 12391,
                          12377, 12290, 10,
                          12371, 12428, 12399, 12486, 12473, 12488, 12391,
                          12377, 12290>>

\* The five pages of the example have been recognized, the third in vain,
\* and the document has been written.
C14_Witness ==
    /\ pc = "pdf"
    /\ screenshot_dir = ExampleThirdFails
    /\ ~ocr_vertical_mode
    /\ TextOf(ocr_results, 3) = <<>>
    /\ TextOf(ocr_results, 4) # <<>>

\* C15: what the batch hands back tells the caller which pages failed: the
\* entry of a page whose recognition raised differs from the entry of every
\* page that was recognized, an empty page included, so that the number of
\* failed pages is the number of entries that mark a failure.
C15_FailuresReported ==
    pc \in {"markdown", "pdf"} =>
        /\ \A i, j \in DOMAIN batch :
              (/\ FileOfRank(screenshot_dir, i).image.raises
               /\ ~FileOfRank(screenshot_dir, j).image.raises) =>
                  batch[i] # batch[j]
        /\ Cardinality({i \in DOMAIN batch : batch[i] = <<>>})
              = Cardinality({f \in screenshot_dir : f.image.raises})

\* C16: when perform_ocr is interrupted after one or more pages have been
\* recognized, the mapping holds the texts of these pages.
C16_PartialResultsKept ==
    (pc = "interrupted" /\ recognized >= 1) =>
        \A i \in 1..recognized :
            LET f == FileOfRank(screenshot_dir, i)
            IN  /\ get_page_number(f) \in Pages(ocr_results)
                /\ ~f.image.raises =>
                      TextOf(ocr_results, get_page_number(f))
                          = recognize_text(f.image, ocr_vertical_mode)

\* C17: once the screenshots have been taken with the page-turn key of
\* KindleToPDF.vertical_mode, the grouper that config.ocr.vertical_mode
\* selects is the one of the same orientation, whatever the direction and
\* the configuration, and the orientation has been detected at most once.
C17_OneOrientation ==
    /\ pc \in {"ocr", "markdown", "pdf"} => vertical_mode = ocr_vertical_mode
    /\ detect_count <= 1

\* C18: after take_screenshots and perform_ocr the mapping has exactly the
\* keys 1..N, N being the number of screenshots kept as page_1..page_N,
\* however the capture loop ended and whichever pages failed.
C18_KeysAreOneToN ==
    pc \in {"markdown", "pdf"} =>
        LET N == Cardinality(screenshot_dir)
        IN  /\ N >= 1
            /\ {f.stem : f \in screenshot_dir} = {page_stem(p) : p \in 1..N}
            /\ Pages(ocr_results) = 1..N

\* Three screenshots were kept when max_pages = 3 stopped the loop, and the
\* recognition of one of them failed.
C18_Witness ==
    /\ pc = "markdown"
    /\ max_pages = 3
    /\ Cardinality(screenshot_dir) = 3
    /\ \E f \in screenshot_dir : f.image.raises

\* Two screenshots were kept when the third repeated the second.
C18_WitnessDuplicate ==
    /\ pc = "markdown"
    /\ max_pages = 3
    /\ Cardinality(screenshot_dir) = 2
    /\ \E f \in screenshot_dir : f.image.raises

\* C19: take_screenshots returns the number of screenshot files it has
\* kept, on either exit of the capture loop.
C19_ReturnsPagesKept ==
    pc \in {"ocr", "markdown", "pdf"} =>
        total_pages = Cardinality(screenshot_dir)

\* The number of members of all groups together.
RECURSIVE TotalMembers(_)
TotalMembers(groups) ==
    IF groups = <<>> THEN 0 ELSE Len(Head(groups)) + TotalMembers(Tail(groups))

\* C20: both groupers partition their input: every fragment lies in exactly
\* one group, the groups hold nothing else and none is empty; no fragment
\* gives no group and a single fragment gives one group of that fragment.
C20_GroupersPartition ==
    pc \in {"horizontal", "vertical"} =>
        /\ IsPartition(lines, results)
        /\ TotalMembers(lines) = Len(results)
        /\ results = <<>> => lines = <<>>
        /\ Len(results) = 1 => lines = <<results>>

\* Three fragments have been grouped into two lines.
C20_Witness ==
    /\ pc = "horizontal"
    /\ Len(results) = 3
    /\ Len(lines) = 2

\* C21: paragraph merging is idempotent: the merged text, split at its
\* newlines and merged again, is the same text; so is the merged text of a
\* page when create_markdown strips, splits and merges it again.
C21_MergeIdempotent ==
    pc = "paragraphs" =>
        /\ _merge_paragraph_lines(split(paragraph_text, 10)) = paragraph_text
        /\ strip(paragraph_text) # <<>> =>
              _merge_paragraph_lines(split(strip(paragraph_text), 10))
                  = strip(paragraph_text)

\* Three non-empty lines have been merged into two paragraphs, which are the
\* lines of the merged text.
C21_Witness ==
    /\ pc = "paragraphs"
    /\ Len(text_lines) = 3
    /\ \A i \in DOMAIN text_lines : ~IsBlank(text_lines[i])
    /\ Len(result_parts) = 2
    /\ split(paragraph_text, 10) = result_parts

\* C22: when take_screenshots has returned, the screenshot directory holds
\* no more files than config.max_pages allows.
C22_BoundedByMaxPages ==
    pc \in {"ocr", "markdown", "pdf"} =>
        Cardinality(screenshot_dir) <= max_pages

====
